---- MODULE Spec2Model ----
(***************************************************************************)
(* A model of teensy-midi-clock.ino: a USB MIDI clock generator.  A        *)
(* hardware interval timer raises TimerISR, which sets pulsePending; the   *)
(* cooperative loop() consumes one pending pulse per iteration (sending a  *)
(* MIDI Clock for an internal one), or else polls the MIDI transport,      *)
(* which dispatches at most one inbound message to a handler.              *)
(***************************************************************************)
EXTENDS Integers, Sequences, FiniteSets, TLC

(***************************************************************************)
(* Program constants (the #defines and enums of the sketch).               *)
(***************************************************************************)
MIDI_CLOCK_PPN == 24
BPM_OFFSET == 40
LED_BEAT_DIV_RATIO == 2
CC_Tempo == 3
PC_Tempo == 15
MinuteSeconds == 60
SecondMicros == 1000000
SPP_BEATS_PER_QUARTER == 4
SPP_BEATS_PER_MEASURE == 16
SPP_PULSES_PER_BEAT == MIDI_CLOCK_PPN \div SPP_BEATS_PER_QUARTER

(***************************************************************************)
(* IEEE-754 single precision, as the sketch's float arithmetic uses it.    *)
(* A positive normal float is [m, e] with 2^23 <= m < 2^24, standing for   *)
(* m * 2^e; zero is [m |-> 0, e |-> 0].  Results are rounded to nearest,   *)
(* ties to even.  Products of two mantissas exceed 32 bits, so FMul works  *)
(* on 12-bit halves.                                                       *)
(***************************************************************************)
MantBits == 24
HalfBits == 12

\* Powers of two up to 2^30, the largest that 32-bit integers hold, tabulated.
RECURSIVE Pow2Rec(_)
Pow2Rec(n) == IF n = 0 THEN 1 ELSE 2 * Pow2Rec(n - 1)
Pow2Table == [n \in 0..30 |-> Pow2Rec(n)]
Pow2(n) == Pow2Table[n]

RECURSIVE Normalize(_, _)
Normalize(m, e) ==
  IF m = 0 THEN [m |-> 0, e |-> 0]
  ELSE IF m < Pow2(MantBits - 1) THEN Normalize(2 * m, e - 1)
  ELSE [m |-> m, e |-> e]

\* static_cast<float>(n) of an integer below 2^24: exact.
FromInt(n) == Normalize(n, 0)

\* Round mantissa m (24 bits) given the discarded part rem out of one unit
\* `unit`: to nearest, ties to even; renormalize when the mantissa overflows.
RoundNearestEven(m, e, rem, unit) ==
  LET up == (2 * rem > unit) \/ (2 * rem = unit /\ m % 2 = 1)
      r  == IF up THEN m + 1 ELSE m
  IN  IF r = Pow2(MantBits) THEN [m |-> Pow2(MantBits - 1), e |-> e + 1]
      ELSE [m |-> r, e |-> e]

\* static_cast<uint32_t>(f): truncation toward zero.
ToUint32(f) ==
  IF f.e >= 0 THEN f.m * Pow2(f.e) ELSE f.m \div Pow2(0 - f.e)

\* a + b for integer-valued operands whose sum stays below 2^24, where the
\* float sum is exact: the case of static_cast<float>(value) + BPM_OFFSET.
FAdd(a, b) == FromInt(ToUint32(a) + ToUint32(b))

FMul(a, b) ==
  IF a.m = 0 \/ b.m = 0 THEN [m |-> 0, e |-> 0]
  ELSE
  LET H   == Pow2(HalfBits)
      W   == Pow2(MantBits)
      ah  == a.m \div H
      al  == a.m % H
      bh  == b.m \div H
      bl  == b.m % H
      hh  == ah * bh
      mid == ah * bl + al * bh
      ll  == al * bl
      lowsum == (mid % H) * H + ll
      low == lowsum % W
      hi  == hh + (mid \div H) + (lowsum \div W)
      \* the exact product is hi * 2^24 + low, with 2^22 <= hi < 2^24
  IN  IF hi >= Pow2(MantBits - 1)
      THEN RoundNearestEven(hi, a.e + b.e + MantBits, low, W)
      ELSE RoundNearestEven(2 * hi + (low \div Pow2(MantBits - 1)),
                            a.e + b.e + MantBits - 1,
                            low % Pow2(MantBits - 1), Pow2(MantBits - 1))

\* Long division: k more quotient bits of r / d, r < d.
RECURSIVE DivBits(_, _, _, _)
DivBits(q, r, d, k) ==
  IF k = 0 THEN [q |-> q, r |-> r]
  ELSE IF 2 * r >= d THEN DivBits(2 * q + 1, 2 * r - d, d, k - 1)
       ELSE DivBits(2 * q, 2 * r, d, k - 1)

FDiv(a, b) ==
  LET k  == IF a.m >= b.m THEN MantBits - 1 ELSE MantBits
      qr == DivBits(a.m \div b.m, a.m % b.m, b.m, k)
  IN  RoundNearestEven(qr.q, a.e - b.e - k, qr.r, b.m)

MIN_PER_SEC == FDiv(FromInt(1), FromInt(MinuteSeconds))
SEC_PER_US == FDiv(FromInt(1), FromInt(SecondMicros))

\* uint32_t UpdateIntervalFromBPM(float BPM)
UpdateIntervalFromBPM(BPM) ==
  ToUint32(FDiv(FromInt(1),
                FMul(FMul(FMul(FromInt(MIDI_CLOCK_PPN), BPM), MIN_PER_SEC),
                     SEC_PER_US)))

\* The handlers' argument: static_cast<float>(value) + BPM_OFFSET
TempoBPM(value) == FAdd(FromInt(value), FromInt(BPM_OFFSET))

(***************************************************************************)
(* Inputs: the inbound MIDI messages one poll of the transport may         *)
(* dispatch.  A message is [type, channel, data1, data2]; the real-time    *)
(* messages carry no channel and no data.                                  *)
(***************************************************************************)
MaxValue == 127
Channels == {1, PC_Tempo}
Controls == {CC_Tempo, CC_Tempo + 4}
Values == {0, 20, MaxValue}
RealTimeBytes == {"Clock", "Start", "Continue", "Stop"}

NoMsg == [type |-> "None", channel |-> 0, data1 |-> 0, data2 |-> 0]

Messages ==
  {[type |-> "CC", channel |-> ch, data1 |-> c, data2 |-> v] :
      ch \in Channels, c \in Controls, v \in Values}
  \cup {[type |-> "PC", channel |-> ch, data1 |-> v, data2 |-> 0] :
      ch \in Channels, v \in Values}
  \cup {[type |-> b, channel |-> 0, data1 |-> 0, data2 |-> 0] :
      b \in RealTimeBytes}
  \cup {NoMsg}

\* The longest deferral of an external pulse the model counts (it saturates).
MaxDefer == 3
\* The lead of interrupts over Clocks sent that the model counts (it
\* saturates), and the backlog of inbound Clocks over external pulses consumed.
MaxAhead == 2
MaxBacklog == 2
\* The song position up to which the SPP_SYNC build is explored.
MaxSPP == 18

VARIABLES
  pulsePending,     \* bool pulsePending: set by TimerISR, cleared by loop()
  extClockPending,  \* bool extClockPending: set on inbound Clock
  pulseCounter,     \* uint8_t pulseCounter
  timerEn,          \* bool timerEn
  timerActive,      \* midiClockTimer: begun and not ended
  timerPeriod,      \* midiClockTimer: the programmed interval in us (0: none)
  led,              \* LED_BUILTIN: the level last written
  ledOp,            \* the digitalWrite call of the last step, "none" if none
  pc,               \* where loop() stands
  sent,             \* MIDI Clocks sent so far in the current iteration
  sawPulse,         \* what the current iteration read from pulsePending
  sawExt,           \* what it read from extClockPending ("unread" if not read)
  did,              \* what the current iteration has done
  lastStep,         \* the step taken last
  lastMsg,          \* the message the last step dispatched (NoMsg if none)
  window,           \* digitalWrite calls of the last <= 24 consumed pulses
                    \* since the last Start
  scen,             \* progress through Start, Stop, tempo with no pulse
                    \* consumed since the Start
  owed,             \* iterations begun since both flags were seen set with
                    \* the external pulse still unconsumed
  isrSinceClear,    \* TimerISR has run since loop() last cleared pulsePending
  SPP,              \* uint16_t SPP (SPP_SYNC builds; 0 otherwise)
  timerOp,          \* the midiClockTimer call of the last step, "none" if none
  tempoSeen,        \* a tempo-setting message has been dispatched
  isrInIter,        \* TimerISR has run in this iteration after it called
                    \* sendRealTime
  isrAhead,         \* interrupts fired minus Clocks sent (saturating above)
  extUnconsumed,    \* inbound Clocks dispatched minus external pulses consumed
  startMode,        \* a Start was handled and no tempo message since
  extSinceStart     \* external pulses consumed since that Start, modulo 24

progVars == <<pulsePending, extClockPending, pulseCounter, timerEn>>
hwVars == <<timerActive, timerPeriod, led, ledOp>>
obsVars == <<sent, sawPulse, sawExt, did, lastStep, lastMsg, window, scen,
             owed, isrSinceClear>>
moreVars == <<SPP, timerOp, tempoSeen, isrInIter, isrAhead, extUnconsumed,
              startMode, extSinceStart>>
vars == <<progVars, hwVars, pc, obsVars, moreVars>>

HIGH == "HIGH"
LOW == "LOW"

\* The static initialisers, and setup(): pinMode leaves the LED low.
Init ==
  /\ pulsePending = FALSE
  /\ extClockPending = FALSE
  /\ pulseCounter = 0
  /\ timerEn = FALSE
  /\ timerActive = FALSE
  /\ timerPeriod = 0
  /\ led = LOW
  /\ ledOp = "none"
  /\ pc = "test"
  /\ sent = 0
  /\ sawPulse = FALSE
  /\ sawExt = "unread"
  /\ did = {}
  /\ lastStep = "setup"
  /\ lastMsg = NoMsg
  /\ window = << >>
  /\ scen = "-"
  /\ owed = 0
  /\ isrSinceClear = FALSE
  /\ SPP = 0
  /\ timerOp = "none"
  /\ tempoSeen = FALSE
  /\ isrInIter = FALSE
  /\ isrAhead = 0
  /\ extUnconsumed = 0
  /\ startMode = FALSE
  /\ extSinceStart = 0

(***************************************************************************)
(* The interval timer (IntervalTimer midiClockTimer).                      *)
(***************************************************************************)
TimerBegin(us) ==
  timerActive' = TRUE /\ timerPeriod' = us /\ timerOp' = "begin"
TimerUpdate(us) ==
  timerPeriod' = us /\ timerOp' = "update" /\ UNCHANGED timerActive
TimerEnd == timerActive' = FALSE /\ timerPeriod' = 0 /\ timerOp' = "end"
\* No call of the timer.
TimerNone == timerOp' = "none" /\ UNCHANGED <<timerActive, timerPeriod>>

(***************************************************************************)
(* The interrupt service routine: runs between any two steps of loop()     *)
(* while the timer is active.                                              *)
(***************************************************************************)
TimerISR ==
  /\ timerActive
  /\ pulsePending' = TRUE
  /\ isrSinceClear' = TRUE
  /\ lastStep' = "TimerISR"
  /\ lastMsg' = NoMsg
  /\ ledOp' = "none"
  /\ timerOp' = "none"
  /\ isrInIter' = (isrInIter \/ pc \in {"flush", "clear", "pulse"})
  /\ isrAhead' = (IF isrAhead < MaxAhead THEN isrAhead + 1 ELSE isrAhead)
  /\ UNCHANGED <<extClockPending, pulseCounter, timerEn, timerActive,
                 timerPeriod, led, pc, sent, sawPulse, sawExt, did, window,
                 scen, owed>>
  /\ UNCHANGED <<SPP, tempoSeen, extUnconsumed, startMode, extSinceStart>>

(***************************************************************************)
(* The event handlers.  Each states its effect on the variables a handler  *)
(* may write: timerEn, the timer, pulseCounter and extClockPending.  A     *)
(* handler is one step: TimerISR writes pulsePending only, which no        *)
(* handler reads or writes, so an interrupt inside a handler before end()  *)
(* equals one just before the handler, and one after begin() equals one    *)
(* just after it.                                                          *)
(***************************************************************************)
\* CC_Handler as it would be with the channel test of PC_Handler copied in.
CC_Handler_Channel15Only(channel, control, value) ==
  IF control = CC_Tempo /\ channel = PC_Tempo
  THEN LET clockIntervalUs == UpdateIntervalFromBPM(TempoBPM(value))
       IN  /\ IF timerEn
              THEN TimerUpdate(clockIntervalUs) /\ UNCHANGED timerEn
              ELSE TimerBegin(clockIntervalUs) /\ timerEn' = TRUE
           /\ UNCHANGED <<pulseCounter, extClockPending>>
  ELSE TimerNone /\ UNCHANGED <<timerEn, pulseCounter, extClockPending>>

\* CC_Handler without the test of the controller number.
CC_Handler_AnyControl(channel, control, value) ==
  LET clockIntervalUs == UpdateIntervalFromBPM(TempoBPM(value))
  IN  /\ IF timerEn
         THEN TimerUpdate(clockIntervalUs) /\ UNCHANGED timerEn
         ELSE TimerBegin(clockIntervalUs) /\ timerEn' = TRUE
      /\ UNCHANGED <<pulseCounter, extClockPending>>

CC_Handler(channel, control, value) ==
  IF control = CC_Tempo
  THEN LET clockIntervalUs == UpdateIntervalFromBPM(TempoBPM(value))
       IN  /\ IF timerEn
              THEN TimerUpdate(clockIntervalUs) /\ UNCHANGED timerEn
              ELSE TimerBegin(clockIntervalUs) /\ timerEn' = TRUE
           /\ UNCHANGED <<pulseCounter, extClockPending>>
  ELSE TimerNone /\ UNCHANGED <<timerEn, pulseCounter, extClockPending>>

\* PC_Handler without the test of the channel.
PC_Handler_AnyChannel(channel, value) ==
  LET clockIntervalUs == UpdateIntervalFromBPM(TempoBPM(value))
  IN  /\ IF timerEn
         THEN TimerUpdate(clockIntervalUs) /\ UNCHANGED timerEn
         ELSE TimerBegin(clockIntervalUs) /\ timerEn' = TRUE
      /\ UNCHANGED <<pulseCounter, extClockPending>>

\* PC_Handler calling begin() whether or not the timer runs.
PC_Handler_AlwaysBegin(channel, value) ==
  IF channel = PC_Tempo
  THEN LET clockIntervalUs == UpdateIntervalFromBPM(TempoBPM(value))
       IN  /\ TimerBegin(clockIntervalUs) /\ timerEn' = TRUE
           /\ UNCHANGED <<pulseCounter, extClockPending>>
  ELSE TimerNone /\ UNCHANGED <<timerEn, pulseCounter, extClockPending>>

PC_Handler(channel, value) ==
  IF channel = PC_Tempo
  THEN LET clockIntervalUs == UpdateIntervalFromBPM(TempoBPM(value))
       IN  /\ IF timerEn
              THEN TimerUpdate(clockIntervalUs) /\ UNCHANGED timerEn
              ELSE TimerBegin(clockIntervalUs) /\ timerEn' = TRUE
           /\ UNCHANGED <<pulseCounter, extClockPending>>
  ELSE TimerNone /\ UNCHANGED <<timerEn, pulseCounter, extClockPending>>

\* RealTimeSystemHandler without the resync of pulseCounter on Start.
RealTimeSystemHandler_KeepCounter(realtimebyte) ==
  CASE realtimebyte \in {"Start", "Stop"} ->
         /\ IF timerEn
            THEN TimerEnd /\ timerEn' = FALSE
            ELSE TimerNone /\ UNCHANGED timerEn
         /\ UNCHANGED <<pulseCounter, extClockPending>>
    [] realtimebyte = "Clock" ->
         /\ extClockPending' = TRUE
         /\ TimerNone /\ UNCHANGED <<timerEn, pulseCounter>>
    [] OTHER ->
         TimerNone /\ UNCHANGED <<timerEn, pulseCounter, extClockPending>>

\* RealTimeSystemHandler with Stop falling through the case of Start.
RealTimeSystemHandler_StopResets(realtimebyte) ==
  CASE realtimebyte \in {"Start", "Stop"} ->
         /\ pulseCounter' = 0
         /\ IF timerEn
            THEN TimerEnd /\ timerEn' = FALSE
            ELSE TimerNone /\ UNCHANGED timerEn
         /\ UNCHANGED extClockPending
    [] realtimebyte = "Clock" ->
         /\ extClockPending' = TRUE
         /\ TimerNone /\ UNCHANGED <<timerEn, pulseCounter>>
    [] OTHER ->
         TimerNone /\ UNCHANGED <<timerEn, pulseCounter, extClockPending>>

\* RealTimeSystemHandler with Stop ending the timer but leaving timerEn set.
RealTimeSystemHandler_StopKeepsEn(realtimebyte) ==
  CASE realtimebyte = "Start" ->
         /\ pulseCounter' = 0
         /\ IF timerEn
            THEN TimerEnd /\ timerEn' = FALSE
            ELSE TimerNone /\ UNCHANGED timerEn
         /\ UNCHANGED extClockPending
    [] realtimebyte = "Stop" ->
         /\ IF timerEn
            THEN TimerEnd /\ UNCHANGED timerEn
            ELSE TimerNone /\ UNCHANGED timerEn
         /\ UNCHANGED <<pulseCounter, extClockPending>>
    [] realtimebyte = "Clock" ->
         /\ extClockPending' = TRUE
         /\ TimerNone /\ UNCHANGED <<timerEn, pulseCounter>>
    [] OTHER ->
         TimerNone /\ UNCHANGED <<timerEn, pulseCounter, extClockPending>>

RealTimeSystemHandler(realtimebyte) ==
  CASE realtimebyte = "Start" ->
         /\ pulseCounter' = 0
         /\ IF timerEn
            THEN TimerEnd /\ timerEn' = FALSE
            ELSE TimerNone /\ UNCHANGED timerEn
         /\ UNCHANGED extClockPending
    [] realtimebyte = "Stop" ->
         /\ IF timerEn
            THEN TimerEnd /\ timerEn' = FALSE
            ELSE TimerNone /\ UNCHANGED timerEn
         /\ UNCHANGED <<pulseCounter, extClockPending>>
    [] realtimebyte = "Clock" ->
         /\ extClockPending' = TRUE
         /\ TimerNone /\ UNCHANGED <<timerEn, pulseCounter>>
    [] OTHER ->
         TimerNone /\ UNCHANGED <<timerEn, pulseCounter, extClockPending>>

\* uint8_t arithmetic
ByteRange == 256

\* ClockPulseHandler without the modulo: the uint8_t counter runs on.
ClockPulseHandler_NoWrap ==
  /\ IF pulseCounter = 0
     THEN led' = HIGH /\ ledOp' = HIGH
     ELSE IF pulseCounter = MIDI_CLOCK_PPN \div LED_BEAT_DIV_RATIO
          THEN led' = LOW /\ ledOp' = LOW
          ELSE led' = led /\ ledOp' = "none"
  /\ pulseCounter' = (pulseCounter + 1) % ByteRange

\* ClockPulseHandler switching the LED off one pulse early.
ClockPulseHandler_EarlyOff ==
  /\ IF pulseCounter = 0
     THEN led' = HIGH /\ ledOp' = HIGH
     ELSE IF pulseCounter = MIDI_CLOCK_PPN \div LED_BEAT_DIV_RATIO - 1
          THEN led' = LOW /\ ledOp' = LOW
          ELSE led' = led /\ ledOp' = "none"
  /\ pulseCounter' = (pulseCounter + 1) % MIDI_CLOCK_PPN

\* ClockPulseHandler with the division by LED_BEAT_DIV_RATIO left out: the
\* counter never equals MIDI_CLOCK_PPN, so the LED is never switched off.
ClockPulseHandler_NoOff ==
  /\ IF pulseCounter = 0
     THEN led' = HIGH /\ ledOp' = HIGH
     ELSE IF pulseCounter = MIDI_CLOCK_PPN
          THEN led' = LOW /\ ledOp' = LOW
          ELSE led' = led /\ ledOp' = "none"
  /\ pulseCounter' = (pulseCounter + 1) % MIDI_CLOCK_PPN

\* void ClockPulseHandler(void), SPP_SYNC not defined
ClockPulseHandler ==
  /\ IF pulseCounter = 0
     THEN led' = HIGH /\ ledOp' = HIGH
     ELSE IF pulseCounter = MIDI_CLOCK_PPN \div LED_BEAT_DIV_RATIO
          THEN led' = LOW /\ ledOp' = LOW
          ELSE led' = led /\ ledOp' = "none"
  /\ pulseCounter' = (pulseCounter + 1) % MIDI_CLOCK_PPN

\* usbMIDI.read(): at most one inbound message, dispatched to the handler
\* setup() registered for its type (none for the other types).
Dispatch(msg) ==
  CASE msg.type = "CC" -> CC_Handler(msg.channel, msg.data1, msg.data2)
    [] msg.type = "PC" -> PC_Handler(msg.channel, msg.data1)
    [] msg.type \in RealTimeBytes -> RealTimeSystemHandler(msg.type)
    [] OTHER -> /\ TimerNone
                /\ UNCHANGED <<timerEn, pulseCounter, extClockPending>>

(***************************************************************************)
(* loop(), one step per statement that touches state shared with the ISR   *)
(* or the outside.  pc: "test" (if (pulsePending)), "send", "flush",       *)
(* "clear", "pulse", "testExt" (else if (extClockPending)), "ext", "read". *)
(***************************************************************************)
Saturate(n) == IF n < MaxDefer THEN n + 1 ELSE MaxDefer

Push(w, op) ==
  IF Len(w) < MIDI_CLOCK_PPN THEN Append(w, op) ELSE Append(Tail(w), op)

\* loop() testing extClockPending before pulsePending.
LoopTestPulse_ExternalFirst ==
  /\ pc = "test"
  /\ pc' = IF extClockPending THEN "ext"
           ELSE IF pulsePending THEN "send" ELSE "read"
  /\ sawPulse' = pulsePending
  /\ sawExt' = IF extClockPending THEN "set" ELSE "clear"
  /\ did' = {}
  /\ sent' = 0
  /\ owed' = IF pulsePending /\ extClockPending THEN Saturate(owed) ELSE owed
  /\ lastStep' = "LoopTestPulse"
  /\ lastMsg' = NoMsg
  /\ ledOp' = "none"
  /\ UNCHANGED <<progVars, timerActive, timerPeriod, led, window, scen,
                 isrSinceClear>>
  /\ timerOp' = "none"
  /\ isrInIter' = FALSE
  /\ UNCHANGED <<SPP, tempoSeen, isrAhead, extUnconsumed, startMode,
                 extSinceStart>>

\* loop() testing timerEn where it should test pulsePending.
LoopTestPulse_TestsTimerEn ==
  /\ pc = "test"
  /\ pc' = IF timerEn THEN "send" ELSE "testExt"
  /\ sawPulse' = pulsePending
  /\ sawExt' = "unread"
  /\ did' = {}
  /\ sent' = 0
  /\ owed' = IF pulsePending /\ extClockPending THEN Saturate(owed) ELSE owed
  /\ lastStep' = "LoopTestPulse"
  /\ lastMsg' = NoMsg
  /\ ledOp' = "none"
  /\ UNCHANGED <<progVars, timerActive, timerPeriod, led, window, scen,
                 isrSinceClear>>
  /\ timerOp' = "none"
  /\ isrInIter' = FALSE
  /\ UNCHANGED <<SPP, tempoSeen, isrAhead, extUnconsumed, startMode,
                 extSinceStart>>

\* if (pulsePending)
LoopTestPulse ==
  /\ pc = "test"
  /\ pc' = IF pulsePending THEN "send" ELSE "testExt"
  /\ sawPulse' = pulsePending
  /\ sawExt' = "unread"
  /\ did' = {}
  /\ sent' = 0
  /\ owed' = IF pulsePending /\ extClockPending THEN Saturate(owed) ELSE owed
  /\ lastStep' = "LoopTestPulse"
  /\ lastMsg' = NoMsg
  /\ ledOp' = "none"
  /\ UNCHANGED <<progVars, timerActive, timerPeriod, led, window, scen,
                 isrSinceClear>>
  /\ timerOp' = "none"
  /\ isrInIter' = FALSE
  /\ UNCHANGED <<SPP, tempoSeen, isrAhead, extUnconsumed, startMode,
                 extSinceStart>>

\* usbMIDI.sendRealTime(usbMIDI.Clock);
LoopSendClock ==
  /\ pc = "send"
  /\ sent' = sent + 1
  /\ pc' = "flush"
  /\ lastStep' = "LoopSendClock"
  /\ lastMsg' = NoMsg
  /\ ledOp' = "none"
  /\ UNCHANGED <<progVars, timerActive, timerPeriod, led, sawPulse, sawExt,
                 did, window, scen, owed, isrSinceClear>>
  /\ timerOp' = "none"
  /\ isrAhead' = isrAhead - 1
  /\ UNCHANGED <<SPP, tempoSeen, isrInIter, extUnconsumed, startMode,
                 extSinceStart>>

\* usbMIDI.send_now();
LoopSendNow ==
  /\ pc = "flush"
  /\ pc' = "clear"
  /\ lastStep' = "LoopSendNow"
  /\ lastMsg' = NoMsg
  /\ ledOp' = "none"
  /\ timerOp' = "none"
  /\ UNCHANGED <<progVars, timerActive, timerPeriod, led, sent, sawPulse,
                 sawExt, did, window, scen, owed, isrSinceClear>>
  /\ UNCHANGED <<SPP, tempoSeen, isrInIter, isrAhead, extUnconsumed,
                 startMode, extSinceStart>>

\* loop() without pulsePending = false.
LoopClearPulse_Forgets ==
  /\ pc = "clear"
  /\ isrSinceClear' = FALSE
  /\ pc' = "pulse"
  /\ lastStep' = "LoopClearPulse"
  /\ lastMsg' = NoMsg
  /\ ledOp' = "none"
  /\ UNCHANGED <<progVars, timerActive, timerPeriod, led, sent, sawPulse,
                 sawExt, did, window, scen, owed>>
  /\ timerOp' = "none"
  /\ UNCHANGED <<SPP, tempoSeen, isrInIter, isrAhead, extUnconsumed,
                 startMode, extSinceStart>>

\* pulsePending = false;
LoopClearPulse ==
  /\ pc = "clear"
  /\ pulsePending' = FALSE
  /\ isrSinceClear' = FALSE
  /\ pc' = "pulse"
  /\ lastStep' = "LoopClearPulse"
  /\ lastMsg' = NoMsg
  /\ ledOp' = "none"
  /\ UNCHANGED <<extClockPending, pulseCounter, timerEn, timerActive,
                 timerPeriod, led, sent, sawPulse, sawExt, did, window, scen,
                 owed>>
  /\ timerOp' = "none"
  /\ UNCHANGED <<SPP, tempoSeen, isrInIter, isrAhead, extUnconsumed,
                 startMode, extSinceStart>>

\* ClockPulseHandler(); of the internal branch
LoopPulseInternal ==
  /\ pc = "pulse"
  /\ ClockPulseHandler
  /\ pc' = "test"
  /\ did' = did \cup {"internal"}
  /\ window' = Push(window, ledOp')
  /\ scen' = "-"
  /\ lastStep' = "LoopPulseInternal"
  /\ lastMsg' = NoMsg
  /\ UNCHANGED <<pulsePending, extClockPending, timerEn, timerActive,
                 timerPeriod, sent, sawPulse, sawExt, owed, isrSinceClear>>
  /\ timerOp' = "none"
  /\ UNCHANGED <<SPP, tempoSeen, isrInIter, isrAhead, extUnconsumed,
                 startMode, extSinceStart>>

\* else if (extClockPending)
LoopTestExt ==
  /\ pc = "testExt"
  /\ pc' = IF extClockPending THEN "ext" ELSE "read"
  /\ sawExt' = IF extClockPending THEN "set" ELSE "clear"
  /\ lastStep' = "LoopTestExt"
  /\ lastMsg' = NoMsg
  /\ ledOp' = "none"
  /\ UNCHANGED <<progVars, timerActive, timerPeriod, led, sent, sawPulse,
                 did, window, scen, owed, isrSinceClear>>
  /\ timerOp' = "none"
  /\ UNCHANGED <<SPP, tempoSeen, isrInIter, isrAhead, extUnconsumed,
                 startMode, extSinceStart>>

\* loop() echoing a Clock for an external pulse too.
LoopPulseExternal_SendsClock ==
  /\ pc = "ext"
  /\ sent' = sent + 1
  /\ extClockPending' = FALSE
  /\ ClockPulseHandler
  /\ pc' = "test"
  /\ did' = did \cup {"external"}
  /\ window' = Push(window, ledOp')
  /\ scen' = "-"
  /\ owed' = 0
  /\ lastStep' = "LoopPulseExternal"
  /\ lastMsg' = NoMsg
  /\ UNCHANGED <<pulsePending, timerEn, timerActive, timerPeriod, sawPulse,
                 sawExt, isrSinceClear>>
  /\ timerOp' = "none"
  /\ extUnconsumed' = extUnconsumed - 1
  /\ extSinceStart' = (IF startMode THEN (extSinceStart + 1) % MIDI_CLOCK_PPN
                                     ELSE extSinceStart)
  /\ UNCHANGED <<SPP, tempoSeen, isrInIter, isrAhead, startMode>>

\* loop() without extClockPending = false.
LoopPulseExternal_KeepsFlag ==
  /\ pc = "ext"
  /\ ClockPulseHandler
  /\ pc' = "test"
  /\ did' = did \cup {"external"}
  /\ window' = Push(window, ledOp')
  /\ scen' = "-"
  /\ owed' = 0
  /\ lastStep' = "LoopPulseExternal"
  /\ lastMsg' = NoMsg
  /\ UNCHANGED <<pulsePending, extClockPending, timerEn, timerActive,
                 timerPeriod, sent, sawPulse, sawExt, isrSinceClear>>
  /\ timerOp' = "none"
  /\ extUnconsumed' = extUnconsumed - 1
  /\ extSinceStart' = (IF startMode THEN (extSinceStart + 1) % MIDI_CLOCK_PPN
                                     ELSE extSinceStart)
  /\ UNCHANGED <<SPP, tempoSeen, isrInIter, isrAhead, startMode>>

\* extClockPending = false; ClockPulseHandler();
LoopPulseExternal ==
  /\ pc = "ext"
  /\ extClockPending' = FALSE
  /\ ClockPulseHandler
  /\ pc' = "test"
  /\ did' = did \cup {"external"}
  /\ window' = Push(window, ledOp')
  /\ scen' = "-"
  /\ owed' = 0
  /\ lastStep' = "LoopPulseExternal"
  /\ lastMsg' = NoMsg
  /\ UNCHANGED <<pulsePending, timerEn, timerActive, timerPeriod, sent,
                 sawPulse, sawExt, isrSinceClear>>
  /\ timerOp' = "none"
  /\ extUnconsumed' = extUnconsumed - 1
  /\ extSinceStart' = (IF startMode THEN (extSinceStart + 1) % MIDI_CLOCK_PPN
                                     ELSE extSinceStart)
  /\ UNCHANGED <<SPP, tempoSeen, isrInIter, isrAhead, startMode>>

\* A tempo-setting message, as section 4.3 of the design names it.
IsTempo(msg) ==
  \/ msg.type = "CC" /\ msg.data1 = CC_Tempo
  \/ msg.type = "PC" /\ msg.channel = PC_Tempo

\* else usbMIDI.read();
LoopRead ==
  /\ pc = "read"
  /\ \E msg \in Messages :
        /\ Dispatch(msg)
        /\ lastMsg' = msg
        /\ window' = IF msg.type = "Start" THEN << >> ELSE window
        /\ scen' = CASE msg = NoMsg -> scen
                     [] msg.type = "Start" -> "S"
                     [] msg.type = "Stop" /\ scen = "S" -> "SS"
                     [] IsTempo(msg) /\ scen = "SS" -> "SST"
                     [] OTHER -> "-"
        /\ tempoSeen' = (tempoSeen \/ IsTempo(msg))
        /\ extUnconsumed' = (IF msg.type = "Clock" /\ extUnconsumed < MaxBacklog
                             THEN extUnconsumed + 1 ELSE extUnconsumed)
        /\ startMode' = (IF msg.type = "Start" THEN TRUE
                         ELSE IF IsTempo(msg) THEN FALSE ELSE startMode)
        /\ extSinceStart' = (IF msg.type = "Start" \/ IsTempo(msg) THEN 0
                             ELSE extSinceStart)
  /\ pc' = "test"
  /\ did' = did \cup {"poll"}
  /\ lastStep' = "LoopRead"
  /\ ledOp' = "none"
  /\ UNCHANGED <<pulsePending, led, sent, sawPulse, sawExt, owed,
                 isrSinceClear>>
  /\ UNCHANGED <<SPP, isrInIter, isrAhead>>

Next ==
  \/ TimerISR
  \/ LoopTestPulse
  \/ LoopSendClock
  \/ LoopSendNow
  \/ LoopClearPulse
  \/ LoopPulseInternal
  \/ LoopTestExt
  \/ LoopPulseExternal
  \/ LoopRead

Spec == Init /\ [][Next]_vars

(***************************************************************************)
(* The claims.                                                             *)
(***************************************************************************)
PulseSteps == {"LoopPulseInternal", "LoopPulseExternal"}
Handled(type) == lastStep = "LoopRead" /\ lastMsg.type = type
HalfBeat == MIDI_CLOCK_PPN \div LED_BEAT_DIV_RATIO

\* C1: right after an inbound real-time Start is handled, pulseCounter is 0
\* and the internal timer is disarmed (timerEn false, hardware timer ended),
\* whatever the state before.
C1_StartResetsAndDisarms ==
  Handled("Start") => (pulseCounter = 0 /\ ~timerEn /\ ~timerActive)

\* A Start handled after pulses were consumed, with an internal pulse pending
\* (no external pulse is ever pending when the transport is polled).
C1_Witness ==
  Handled("Start") /\ pulsePending /\ led = HIGH /\ Len(window) = 0

\* C2: handling an inbound real-time Stop leaves the timer disarmed and
\* leaves pulseCounter, the LED, pulsePending and extClockPending as they
\* were before the Stop.
C2_StopDisarmsOnly ==
  [][(lastStep' = "LoopRead" /\ lastMsg'.type = "Stop") =>
       /\ ~timerEn' /\ ~timerActive'
       /\ pulseCounter' = pulseCounter
       /\ led' = led /\ ledOp' = "none"
       /\ pulsePending' = pulsePending
       /\ extClockPending' = extClockPending]_vars

\* A Stop handled in mid-beat with the LED on and an internal pulse pending.
C2_Witness ==
  Handled("Stop") /\ pulseCounter # 0 /\ led = HIGH /\ pulsePending

\* C3: while the internal timer is disarmed, no MIDI Clock is sent and no
\* internal pulse advances pulseCounter: a pulse pending at the disarm is
\* discarded.
C3_DisarmDiscardsPendingPulse ==
  ~timerEn => lastStep \notin {"LoopSendClock", "LoopSendNow",
                               "LoopPulseInternal"}

\* C4: a tempo-setting message (CC 3 on any channel, PC on channel 15)
\* leaves the timer armed and pulseCounter as it was; after Start, Stop,
\* tempo message the timer is armed and pulseCounter is 0 until the next
\* pulse is consumed.
C4_TempoArmsKeepsCounter ==
  /\ [](scen = "SST" => (timerEn /\ timerActive /\ pulseCounter = 0))
  /\ [][(lastStep' = "LoopRead" /\ IsTempo(lastMsg')) =>
          /\ timerEn' /\ timerActive'
          /\ pulseCounter' = pulseCounter]_vars

\* Start, Stop, then a tempo Control Change on a channel other than 15.
C4_Witness ==
  /\ scen = "SST" /\ lastStep = "LoopRead"
  /\ lastMsg.type = "CC" /\ lastMsg.channel # PC_Tempo

\* C5: pulseCounter stays in 0..23, and a consumed pulse, internal or
\* external, advances it by one modulo 24 and writes the LED by the same
\* rule.
C5_CounterCycles ==
  /\ [](pulseCounter \in 0..(MIDI_CLOCK_PPN - 1))
  /\ [][lastStep' \in PulseSteps =>
          /\ pulseCounter' = (pulseCounter + 1) % MIDI_CLOCK_PPN
          /\ led' = IF pulseCounter = 0 THEN HIGH
                    ELSE IF pulseCounter = HalfBeat THEN LOW ELSE led]_vars

\* An external pulse has wrapped the counter from 23 to 0 while the internal
\* timer runs as well.
C5_Witness ==
  /\ lastStep = "LoopPulseExternal" /\ pulseCounter = 0
  /\ Len(window) = MIDI_CLOCK_PPN /\ timerActive

\* C6: a consumed pulse writes the LED high exactly when pulseCounter was 0,
\* low exactly when it was 12, and not at all otherwise; no other step
\* writes the LED.
C6_LedWrites ==
  [][/\ lastStep' \in PulseSteps =>
          /\ ledOp' = IF pulseCounter = 0 THEN HIGH
                      ELSE IF pulseCounter = HalfBeat THEN LOW ELSE "none"
          /\ led' = IF ledOp' = "none" THEN led ELSE ledOp'
     /\ lastStep' \notin PulseSteps => (ledOp' = "none" /\ led' = led)]_vars

\* The pulse at pulseCounter = 12 has switched the LED off.
C6_Witness ==
  /\ lastStep \in PulseSteps /\ ledOp = LOW /\ led = LOW
  /\ pulseCounter = HalfBeat + 1

Positions(w, op) == {i \in 1..Len(w) : w[i] = op}

\* C7 as stated: in any 24 consecutive consumed pulses with no Start in
\* between, the LED is switched on once and off once, the switch-off 12
\* pulses after the switch-on.
C7_OffTwelveAfterOn ==
  Len(window) = MIDI_CLOCK_PPN =>
    \E i \in 1..MIDI_CLOCK_PPN :
       /\ Positions(window, HIGH) = {i}
       /\ Positions(window, LOW) = {i + HalfBeat}

\* C7 as amended: in any 24 consecutive consumed pulses with no Start in
\* between, digitalWrite(HIGH) is called once and digitalWrite(LOW) once, 12
\* pulses apart: the switch-off comes 12 pulses after the switch-on when the
\* window begins at pulseCounter 0 or 13..23, and 12 pulses before it when
\* the window begins at pulseCounter 1..12.
C7_OnceEachTwelveApart ==
  Len(window) = MIDI_CLOCK_PPN =>
    \E i, j \in 1..MIDI_CLOCK_PPN :
       /\ Positions(window, HIGH) = {i}
       /\ Positions(window, LOW) = {j}
       /\ IF pulseCounter \in 1..HalfBeat THEN i = j + HalfBeat
                                          ELSE j = i + HalfBeat

\* A full window of 24 pulses that began in mid-beat.
C7_Witness ==
  Len(window) = MIDI_CLOCK_PPN /\ lastStep \in PulseSteps /\ pulseCounter = 5

\* C8: an iteration of loop() that consumes an internal pulse sends exactly
\* one MIDI Clock; one that consumes an external pulse or polls the
\* transport sends none.
C8_OneClockPerInternalPulse ==
  /\ "internal" \in did => sent = 1
  /\ ("external" \in did \/ "poll" \in did) => sent = 0
  /\ ~sawPulse => sent = 0
  /\ (pc = "test" /\ sawPulse) => sent = 1

\* An iteration that consumed an internal pulse has ended.
C8_Witness ==
  /\ pc = "test" /\ did = {"internal"} /\ sent = 1
  /\ lastStep = "LoopPulseInternal"

\* C9: each iteration does exactly one thing, by priority: it consumes the
\* internal pulse if it saw pulsePending set, else the external pulse if it
\* saw extClockPending set, else it polls the transport; having seen
\* pulsePending set it neither polls nor consumes an external pulse.
C9_OneBranchByPriority ==
  /\ Cardinality(did) <= 1
  /\ (pc = "test" /\ lastStep # "setup") =>
        did = IF sawPulse THEN {"internal"}
              ELSE IF sawExt = "set" THEN {"external"} ELSE {"poll"}
  /\ sawPulse => (did \subseteq {"internal"} /\ sawExt = "unread")
  /\ (~sawPulse /\ sawExt = "set") => did \subseteq {"external"}
  /\ (~sawPulse /\ sawExt = "clear") => did \subseteq {"poll"}

\* An iteration consumed the internal pulse while an external one waited.
C9_Witness ==
  /\ pc = "test" /\ lastStep = "LoopPulseInternal"
  /\ sawPulse /\ extClockPending /\ did = {"internal"}

\* C10 as stated: once an iteration has begun with both flags set, the
\* external pulse is consumed no later than the following iteration: no
\* second iteration begins with both flags set before it is consumed.
C10_DeferredAtMostOnce == owed <= 1

\* C10 as amended: once an iteration has begun with both flags set, the
\* following iteration consumes the external pulse unless TimerISR has run
\* again since loop() cleared pulsePending; only such an interrupt makes a
\* further iteration begin with both flags set.
C10_DeferredOnlyByNewInterrupt ==
  /\ (owed >= 1 /\ pc = "test" /\ ~isrSinceClear) =>
        (~pulsePending /\ extClockPending)
  /\ (owed >= 1 /\ pc = "testExt") => extClockPending
  /\ (owed >= 2 /\ pc = "send") => isrSinceClear

\* The external pulse is consumed in the iteration following the one that
\* began with both flags set.
C10_Witness == owed = 1 /\ pc = "ext" /\ ~isrSinceClear

\* C11: the device starts dormant (timer not armed, no flag pending,
\* pulseCounter 0), and as long as no tempo-setting message has been
\* dispatched no MIDI Clock is sent, whatever else arrives.
C11_DormantUntilTempo ==
  /\ lastStep = "setup" =>
        /\ ~timerEn /\ ~timerActive
        /\ ~pulsePending /\ ~extClockPending
        /\ pulseCounter = 0
  /\ ~tempoSeen =>
        /\ ~timerEn /\ ~timerActive /\ ~pulsePending
        /\ sent = 0 /\ lastStep # "LoopSendClock"
        /\ pc \notin {"send", "flush", "clear", "pulse"}

\* External Clocks have been consumed, after a Start, with no tempo message.
C11_Witness ==
  ~tempoSeen /\ startMode /\ lastStep = "LoopPulseExternal" /\ pulseCounter = 2

NonTempo(msg) ==
  \/ msg.type = "CC" /\ msg.data1 # CC_Tempo
  \/ msg.type = "PC" /\ msg.channel # PC_Tempo

TempoValue(msg) == IF msg.type = "CC" THEN msg.data2 ELSE msg.data1

\* C13: a Control Change with a controller other than 3 and a Program Change
\* on a channel other than 15 change nothing (timerEn, the timer and its
\* interval, pulseCounter, both flags, the LED); a Control Change with
\* controller 3 arms or reprograms the timer on every channel.
C13_OnlyTempoMessagesAct ==
  [][/\ (lastStep' = "LoopRead" /\ NonTempo(lastMsg')) =>
          /\ UNCHANGED <<timerEn, timerActive, timerPeriod, pulseCounter,
                         pulsePending, extClockPending, led>>
          /\ timerOp' = "none" /\ ledOp' = "none"
     /\ (lastStep' = "LoopRead" /\ lastMsg'.type = "CC"
           /\ lastMsg'.data1 = CC_Tempo) =>
          /\ timerEn' /\ timerActive'
          /\ timerOp' \in {"begin", "update"}
          /\ timerPeriod' = UpdateIntervalFromBPM(TempoBPM(lastMsg'.data2))
    ]_vars

\* A Program Change on channel 1 while the timer runs at the interval of
\* value 20, with a pulse pending and the LED on.
C13_Witness ==
  /\ Handled("PC") /\ lastMsg.channel # PC_Tempo /\ lastMsg.data1 = 0
  /\ timerActive /\ timerPeriod = UpdateIntervalFromBPM(TempoBPM(20))
  /\ pulsePending /\ led = HIGH

\* C14: the flag is cleared before the Clock is sent, so an interrupt that
\* fires once the sending of the Clock has begun (between sendRealTime and
\* send_now, or later in the iteration) leaves pulsePending set for the next
\* iteration.
C14_InterruptDuringSendKept ==
  (pc = "test" /\ isrInIter) => pulsePending

\* C15: a tempo-setting message received while the timer is armed calls
\* update() with the new interval, neither end() nor begin(), and leaves
\* timerEn, pulsePending, extClockPending and pulseCounter unchanged.
C15_ReprogramInPlace ==
  [][(lastStep' = "LoopRead" /\ IsTempo(lastMsg') /\ timerEn) =>
       /\ timerOp' = "update"
       /\ timerActive /\ timerActive' /\ timerEn'
       /\ timerPeriod' = UpdateIntervalFromBPM(TempoBPM(TempoValue(lastMsg')))
       /\ UNCHANGED <<pulsePending, extClockPending, pulseCounter>>]_vars

\* The running timer was reprogrammed by a Program Change, in mid-beat and
\* with a pulse pending.
C15_Witness ==
  /\ Handled("PC") /\ timerOp = "update" /\ lastMsg.data1 = MaxValue
  /\ pulsePending /\ pulseCounter # 0

\* C17: timerEn is true exactly when the hardware timer has been begun and
\* not ended; begin() is called only on a stopped timer, update() and end()
\* only on a running one.
C17_TimerEnTracksTimer ==
  /\ [](timerEn = timerActive)
  /\ [][/\ timerOp' = "begin" => ~timerActive
        /\ timerOp' \in {"update", "end"} => timerActive]_vars

\* The timer is begun again after Start, Stop.
C17_Witness == timerOp = "begin" /\ scen = "SST" /\ timerEn

\* C18: extClockPending is false whenever the transport is polled, and the
\* inbound Clocks dispatched exceed the external pulses consumed by exactly
\* the pending one: no inbound Clock overwrites an unconsumed pulse.
C18_NoClockOverwritten ==
  /\ pc = "read" => ~extClockPending
  /\ extUnconsumed = IF extClockPending THEN 1 ELSE 0

\* A second inbound Clock is pending after the first was consumed.
C18_Witness ==
  /\ Handled("Clock") /\ extClockPending /\ extUnconsumed = 1
  /\ startMode /\ extSinceStart = 1

\* C19: the Clocks sent never outnumber the interrupts fired.
C19_NoClockWithoutInterrupt == isrAhead >= 0

\* A Clock has been sent after two interrupts coalesced into one pulse.
C19_Witness == lastStep = "LoopSendClock" /\ isrAhead = 1

\* C20: after a Start, as long as no tempo-setting message arrives,
\* pulseCounter is the number of external pulses consumed since the Start
\* modulo 24: no internal pulse is counted.
C20_CounterFollowsHost == startMode => pulseCounter = extSinceStart

(***************************************************************************)
(* The Tempo Mapper over its whole input range.  SpecTempo dispatches      *)
(* tempo-setting messages only, with every data value 0..127, so that the  *)
(* interval programmed into the timer can be compared with the quotient    *)
(* for each value.                                                         *)
(***************************************************************************)
TempoValues == 0..MaxValue

\* usbMIDI.read() dispatching a Control Change with controller CC_Tempo
MapTempoCC ==
  \E ch \in Channels, v \in TempoValues :
     /\ CC_Handler(ch, CC_Tempo, v)
     /\ lastMsg' = [type |-> "CC", channel |-> ch, data1 |-> CC_Tempo,
                    data2 |-> v]
     /\ lastStep' = "LoopRead"
     /\ tempoSeen' = TRUE
     /\ UNCHANGED <<pulsePending, led, ledOp, pc, sent, sawPulse, sawExt, did,
                    window, scen, owed, isrSinceClear, SPP, isrInIter,
                    isrAhead, extUnconsumed, startMode, extSinceStart>>

\* usbMIDI.read() dispatching a Program Change on channel PC_Tempo
MapTempoPC ==
  \E v \in TempoValues :
     /\ PC_Handler(PC_Tempo, v)
     /\ lastMsg' = [type |-> "PC", channel |-> PC_Tempo, data1 |-> v,
                    data2 |-> 0]
     /\ lastStep' = "LoopRead"
     /\ tempoSeen' = TRUE
     /\ UNCHANGED <<pulsePending, led, ledOp, pc, sent, sawPulse, sawExt, did,
                    window, scen, owed, isrSinceClear, SPP, isrInIter,
                    isrAhead, extUnconsumed, startMode, extSinceStart>>

NextTempo ==
  \/ MapTempoCC
  \/ MapTempoPC

SpecTempo == Init /\ [][NextTempo]_vars

\* The quotient the interval is specified to be, truncated.
ExactInterval(v) ==
  (MinuteSeconds * SecondMicros) \div (MIDI_CLOCK_PPN * (v + BPM_OFFSET))

\* C12: for every value v in 0..127 the interval programmed is
\* 60000000 / (24 * (v + 40)) truncated to whole microseconds; it is
\* strictly positive, smaller than the interval of v - 1, and 41666 for
\* v = 20.
C12_IntervalIsTruncatedQuotient ==
  tempoSeen =>
    LET v == TempoValue(lastMsg) IN
      /\ timerPeriod = ExactInterval(v)
      /\ timerPeriod > 0
      /\ v > 0 => timerPeriod < UpdateIntervalFromBPM(TempoBPM(v - 1))
      /\ v = 20 => timerPeriod = 41666

(***************************************************************************)
(* The build with SPP_SYNC defined (line 49 uncommented): the pulse        *)
(* handler also advances the song position every SPP_PULSES_PER_BEAT       *)
(* pulses, and setup() registers SongPositionHandler for inbound Song      *)
(* Position Pointer messages.  SpecSPP is loop() of that build.            *)
(***************************************************************************)
\* uint16_t SPP
WordRange == 65536

\* The beats an inbound Song Position Pointer carries.
SongPositions == {0, SPP_BEATS_PER_MEASURE - 1, SPP_BEATS_PER_MEASURE}

MessagesSPP ==
  {NoMsg}
    \cup {[type |-> "CC", channel |-> 1, data1 |-> CC_Tempo,
           data2 |-> MaxValue]}
    \cup {[type |-> t, channel |-> 0, data1 |-> 0, data2 |-> 0] :
            t \in {"Start", "Clock"}}
    \cup {[type |-> "SongPosition", channel |-> 0, data1 |-> b, data2 |-> 0] :
            b \in SongPositions}

\* void SongPositionHandler(uint16_t beats); counter is pulseCounter at the
\* call
SongPositionHandler(beats, counter) ==
  /\ SPP' = beats
  /\ pulseCounter' = IF beats % SPP_BEATS_PER_MEASURE # 0 THEN 0 ELSE counter

\* void SongPositionIncrement(void)
SongPositionIncrement(counter) ==
  /\ SPP < MaxSPP
  /\ SongPositionHandler((SPP + 1) % WordRange, counter)

\* void ClockPulseHandler(void), SPP_SYNC defined
ClockPulseHandlerSPP ==
  /\ IF pulseCounter = 0
     THEN led' = HIGH /\ ledOp' = HIGH
     ELSE IF pulseCounter = MIDI_CLOCK_PPN \div LED_BEAT_DIV_RATIO
          THEN led' = LOW /\ ledOp' = LOW
          ELSE led' = led /\ ledOp' = "none"
  /\ LET counter == (pulseCounter + 1) % MIDI_CLOCK_PPN IN
       IF counter % SPP_PULSES_PER_BEAT = 0
       THEN SongPositionIncrement(counter)
       ELSE pulseCounter' = counter /\ SPP' = SPP

\* usbMIDI.read() with the Song Position handler registered
DispatchSPP(msg) ==
  IF msg.type = "SongPosition"
  THEN /\ SongPositionHandler(msg.data1, pulseCounter)
       /\ TimerNone
       /\ UNCHANGED <<timerEn, extClockPending>>
  ELSE Dispatch(msg) /\ SPP' = SPP

\* ClockPulseHandler(); of the internal branch
LoopPulseInternalSPP ==
  /\ pc = "pulse"
  /\ ClockPulseHandlerSPP
  /\ pc' = "test"
  /\ did' = did \cup {"internal"}
  /\ scen' = "-"
  /\ lastStep' = "LoopPulseInternal"
  /\ lastMsg' = NoMsg
  /\ timerOp' = "none"
  /\ UNCHANGED <<pulsePending, extClockPending, timerEn, timerActive,
                 timerPeriod, sent, sawPulse, sawExt, owed, isrSinceClear,
                 window, tempoSeen, isrInIter, isrAhead, extUnconsumed,
                 startMode, extSinceStart>>

\* extClockPending = false; ClockPulseHandler();
LoopPulseExternalSPP ==
  /\ pc = "ext"
  /\ extClockPending' = FALSE
  /\ ClockPulseHandlerSPP
  /\ pc' = "test"
  /\ did' = did \cup {"external"}
  /\ scen' = "-"
  /\ owed' = 0
  /\ lastStep' = "LoopPulseExternal"
  /\ lastMsg' = NoMsg
  /\ timerOp' = "none"
  /\ extUnconsumed' = extUnconsumed - 1
  /\ UNCHANGED <<pulsePending, timerEn, timerActive, timerPeriod, sent,
                 sawPulse, sawExt, isrSinceClear, window, tempoSeen,
                 isrInIter, isrAhead, startMode, extSinceStart>>

\* else usbMIDI.read();
LoopReadSPP ==
  /\ pc = "read"
  /\ \E msg \in MessagesSPP :
        /\ DispatchSPP(msg)
        /\ lastMsg' = msg
        /\ tempoSeen' = (tempoSeen \/ IsTempo(msg))
        /\ extUnconsumed' = (IF msg.type = "Clock"
                                  /\ extUnconsumed < MaxBacklog
                             THEN extUnconsumed + 1 ELSE extUnconsumed)
  /\ pc' = "test"
  /\ did' = did \cup {"poll"}
  /\ scen' = "-"
  /\ lastStep' = "LoopRead"
  /\ ledOp' = "none"
  /\ UNCHANGED <<pulsePending, led, sent, sawPulse, sawExt, owed,
                 isrSinceClear, window, isrInIter, isrAhead, startMode,
                 extSinceStart>>

NextSPP ==
  \/ TimerISR
  \/ LoopTestPulse
  \/ LoopSendClock
  \/ LoopSendNow
  \/ LoopClearPulse
  \/ LoopPulseInternalSPP
  \/ LoopTestExt
  \/ LoopPulseExternalSPP
  \/ LoopReadSPP

SpecSPP == Init /\ [][NextSPP]_vars

\* C16: the pulse counter is forced to 0 exactly when the song position
\* becomes a multiple of 16, both when a pulse increments the position and
\* when a Song Position Pointer sets it; at every other position the counter
\* is left as it was (after the pulse's own increment), so that it still
\* reaches 12, where the LED is switched off.
C16_ResyncAtMeasureOnly ==
  [][/\ (lastStep' \in PulseSteps /\ SPP' # SPP) =>
          pulseCounter' = IF SPP' % SPP_BEATS_PER_MEASURE = 0 THEN 0
                          ELSE (pulseCounter + 1) % MIDI_CLOCK_PPN
     /\ (lastStep' = "LoopRead" /\ lastMsg'.type = "SongPosition") =>
          pulseCounter' = IF SPP' % SPP_BEATS_PER_MEASURE = 0 THEN 0
                          ELSE pulseCounter
    ]_vars
====
